---- MODULE Spec2Model ----
(***************************************************************************)
(* Model of the TensorFlow <-> Plasma transfer kernels of                  *)
(* cpp/src/plasma/tensorflow_op/tf_plasma_op.cc                            *)
(*   TensorToPlasmaOp::ComputeAsync   (Put: tf.Tensor -> plasma)           *)
(*   PlasmaToTensorOp::ComputeAsync   (Get: plasma -> tf.Tensor)           *)
(* and of the header helpers of cpp/src/arrow/python/tensor_util.cc.       *)
(*                                                                         *)
(* In Spec one kernel instance of each operator is alive; the runtime      *)
(* invokes ComputeAsync concurrently on worker threads.  A handler is cut  *)
(* into steps at the points where it touches state shared with other       *)
(* handlers (a mutex, the store, a stream queue, the completion callback). *)
(* Stream work executes asynchronously, in FIFO order per stream.  A       *)
(* failed CHECK / ARROW_CHECK_OK aborts the whole process.                 *)
(*                                                                         *)
(* FairSpec is Spec under a fair scheduler.  EarlyPutSpec invokes device   *)
(* Puts whose inputs are still being computed on the compute stream.       *)
(* LifeSpec starts before any operator is constructed and lets the runtime *)
(* construct and destroy operator instances between the calls.             *)
(***************************************************************************)
EXTENDS Integers, Sequences, FiniteSets, TLC

\* ------------------------------------------------------------------ bounds
NumCalls == 2        \* ComputeAsync invocations in one behaviour
NumIds == 2          \* fresh object ids the callers may name
MaxTensors == 2      \* input tensors of one Put
MaxOps == 2          \* operator instances of one kind constructed in one behaviour

\* --------------------------------------------------------------- constants
SizeofFloat == 4     \* sizeof(float)

CallIds == 1..NumCalls
NoCall == 0
ExtId == 0           \* an object another client of the store has sealed
FreshIds == 1..NumIds
ObjectIds == {ExtId} \cup FreshIds

\* ----------------------------------------------------------------- dtypes
\* tensorflow::DataType values the model draws inputs from, with the width
\* of one element as Tensor::TotalBytes() counts it.
DTypes == {"DT_FLOAT", "DT_INT32", "DT_DOUBLE", "DT_QINT32"}

DTypeSize(dtype) ==
  CASE dtype = "DT_FLOAT"  -> 4
    [] dtype = "DT_INT32"  -> 4
    [] dtype = "DT_DOUBLE" -> 8
    [] dtype = "DT_QINT32" -> 4

\* tf_dtype_to_arrow: the arrow type, or "unsupported" where the switch
\* reaches ARROW_CHECK_OK(TypeError).
tf_dtype_to_arrow(dtype) ==
  CASE dtype = "DT_FLOAT"  -> "float32"
    [] dtype = "DT_DOUBLE" -> "float64"
    [] dtype = "DT_INT32"  -> "int32"
    [] OTHER               -> "unsupported"

\* ----------------------------------------------------------------- tensors
\* A tensor is its dtype, its element count and a tag that decides its bytes.
Tensor(dtype, n, tag) == [dtype |-> dtype, n |-> n, tag |-> tag]

NumElements(t) == t.n
TotalBytes(t) == t.n * DTypeSize(t.dtype)

\* The bytes of a tensor's buffer: distinct tensors hold distinct bytes.
TensorData(t) == [k \in 1..TotalBytes(t) |-> (t.tag * 16) + k]

\* An uninitialised byte of a fresh buffer.
Garbage == 0

\* The inputs a Put is invoked with.  Well-formed ones: one float tensor,
\* and MaxTensors float tensors, tensor i holding i elements, so that every
\* tensor differs from the others in size and bytes.  Ill-formed ones: one
\* per check of the validation.
Uniform(dtype, N) == [i \in 1..N |-> Tensor(dtype, i, i)]

ValidInputs == {Uniform("DT_FLOAT", N) : N \in {1, MaxTensors}}

InvalidInputs ==
  { <<>>,                                                      \* no tensor
    <<Tensor("DT_FLOAT", 0, 4)>>,                              \* empty tensor
    <<Tensor("DT_DOUBLE", 1, 5)>>,                             \* 8-byte elements
    <<Tensor("DT_QINT32", 1, 6)>>,                             \* no arrow type
    <<Tensor("DT_FLOAT", 1, 1), Tensor("DT_INT32", 1, 7)>>,    \* mixed, same width
    <<Tensor("DT_FLOAT", 1, 1), Tensor("DT_DOUBLE", 1, 5)>> }  \* mixed widths

PutInputs == ValidInputs \cup InvalidInputs

\* ------------------------------------------------------------ offset table
\* ComputeAsync lines 144-154: offsets[0] = 0, offsets[i+1] = total so far.
RECURSIVE SumBytes(_, _)
SumBytes(inputs, k) ==
  IF k = 0 THEN 0 ELSE SumBytes(inputs, k - 1) + TotalBytes(inputs[k])

\* A slip in the loop: the size of the tensor pushed instead of the total.
Offsets_PerTensor(inputs) ==
  [k \in 1..(Len(inputs) + 1) |-> IF k = 1 THEN 0 ELSE TotalBytes(inputs[k - 1])]

Offsets(inputs) == [k \in 1..(Len(inputs) + 1) |-> SumBytes(inputs, k - 1)]

TotalPayload(inputs) == SumBytes(inputs, Len(inputs))

\* The concatenation of the inputs' bytes, in input order.
RECURSIVE ConcatData(_, _)
ConcatData(inputs, k) ==
  IF k = 0 THEN <<>> ELSE ConcatData(inputs, k - 1) \o TensorData(inputs[k])

\* ------------------------------------------------------------------ header
\* SerializeTensor + SerializedPyObject::WriteTo of an empty tensor of the
\* given dtype and shape: the bytes depend on (dtype, shape) only.
HdrMagic == 200
SerializedHeader(arrow_dtype, shape) ==
  <<HdrMagic,
    CASE arrow_dtype = "float32" -> 201 [] arrow_dtype = "float64" -> 202 [] OTHER -> 203,
    210 + shape,
    HdrMagic>>

\* tensor_util.cc TensorFlowTensorGetHeaderSize: bytes a counting sink saw.
TensorFlowTensorGetHeaderSize(arrow_dtype, shape) ==
  Len(SerializedHeader(arrow_dtype, shape))

\* memcpy(dst + at, src, Len(src)) into a buffer, as far as the buffer goes.
WriteAt(buf, at, src) ==
  [k \in 1..Len(buf) |->
     IF k > at /\ k <= at + Len(src) THEN src[k - at] ELSE buf[k]]

\* tensor_util.cc TensorFlowTensorWrite: the header written at the start of
\* the buffer, and the writer's position after it.
TensorFlowTensorWrite(arrow_dtype, shape, buffer) ==
  LET hdr == SerializedHeader(arrow_dtype, shape)
  IN [buffer |-> WriteAt(buffer, 0, hdr), offset |-> Len(hdr)]


\* ------------------------------------------------------------------- state
VARIABLES
  pc,          \* per call: where its ComputeAsync handler stands
  args,        \* per call: operator, device, inputs and object id
  status,      \* per call: the OpKernelContext status
  doneCount,   \* per call: how often the DoneCallback ran
  idx,         \* per call: tensors whose copy the device loop has enqueued
  storeCalls,  \* per call: the store calls it has issued
  copied,      \* per call: the copies that have landed in their destination
  out,         \* per call: the output tensor of a Get
  read,        \* per call: what the consumer's kernel on the compute stream saw
  store,       \* the object store: per id its state and its data buffer
  mu,          \* per mutex: the call that holds it, or NoCall
  d2h_stream,  \* static Stream* d2h_stream
  h2d_stream,  \* static Stream* h2d_stream
  streamQ,     \* per stream: the work enqueued and not yet executed
  registered,  \* object ids whose host region is pinned (HostMemoryRegister)
  streamLife,  \* per staging stream: how often it was created and deleted
  ops,         \* per operator kind: instances alive and instances constructed
  conn,        \* static connected_, the static client's session, Connect calls
  abort        \* the call whose failed CHECK aborted the process, and the cause

vars == <<pc, args, status, doneCount, idx, storeCalls, copied, out, read, store,
          mu, d2h_stream, h2d_stream, streamQ, registered, streamLife, ops, conn,
          abort>>

Streams == {"d2h", "h2d", "compute"}
Staging == {"d2h", "h2d"}
Mutexes == {"static_mu", "member_mu", "d2h_stream_mu", "h2d_stream_mu"}

NoArgs == [kind |-> "none", dev |-> "CPU", inputs |-> <<>>, id |-> ExtId]
NoOutput == [allocated |-> FALSE, data |-> <<>>]
Absent == [state |-> "absent", data |-> <<>>]

\* The object another client sealed before this process started: 6 bytes.
ExtData == <<101, 102, 103, 104, 105, 106>>

\* No call invoked, no staging stream, an empty store but for ExtId.
NoCalls ==
  /\ pc = [c \in CallIds |-> "idle"]
  /\ args = [c \in CallIds |-> NoArgs]
  /\ status = [c \in CallIds |-> "OK"]
  /\ doneCount = [c \in CallIds |-> 0]
  /\ idx = [c \in CallIds |-> 0]
  /\ storeCalls = [c \in CallIds |-> {}]
  /\ copied = [c \in CallIds |-> {}]
  /\ out = [c \in CallIds |-> NoOutput]
  /\ read = [c \in CallIds |-> "none"]
  /\ store = [id \in ObjectIds |->
                IF id = ExtId THEN [state |-> "sealed", data |-> ExtData] ELSE Absent]
  /\ mu = [m \in Mutexes |-> NoCall]
  /\ d2h_stream = "null"
  /\ h2d_stream = "null"
  /\ streamQ = [s \in Streams |-> <<>>]
  /\ registered = {}
  /\ streamLife = [s \in Staging |-> [created |-> 0, deleted |-> 0]]
  /\ abort = [by |-> NoCall, cause |-> "none"]

Kinds == {"Put", "Get"}

\* One Put operator and one Get operator have been constructed: each
\* constructor has connected its client.
Init ==
  /\ NoCalls
  /\ ops = [k \in Kinds |-> [live |-> 1, built |-> 1]]
  /\ conn = [flag |-> TRUE, client |-> TRUE, connects |-> 2]

\* The process has started: no operator constructed yet.
LifeInit ==
  /\ NoCalls
  /\ ops = [k \in Kinds |-> [live |-> 0, built |-> 0]]
  /\ conn = [flag |-> FALSE, client |-> FALSE, connects |-> 0]

crashed == abort.by # NoCall

\* ----------------------------------------------------------- store client
\* plasma::PlasmaClient, as the kernels use it.
\* Create: a new unsealed object of the given size; fails if the id exists.
CreateOk(id) == store[id].state = "absent"
Created(id, size) == [state |-> "created", data |-> [k \in 1..size |-> Garbage]]
\* Seal: fails unless the object is created and not yet sealed.
SealOk(id) == store[id].state = "created"
\* Get with timeout_ms = -1 returns once the object is sealed.
GetReady(id) == store[id].state = "sealed"

\* The static client has a session with the store: a call on a client
\* without one returns an error status.
Connected == conn.client

\* The mutex a Put locks around Create and Seal: inside TensorToPlasmaOp
\* the name mu_ is the private member (line 259), which hides the static.
PutMutex == "member_mu"
\* The mutex a Get locks around the blocking fetch: the static mu_ (line 44).
GetMutex == "static_mu"

\* --------------------------------------------------------------- streams
\* A unit of stream work: its key <<type, call, i>> and, for a wait, the keys
\* of the work of the other stream it waits for.
Op(type, c, i, on) == [key |-> <<type, c, i>>, on |-> on]
Pending(s) == {streamQ[s][k].key : k \in 1..Len(streamQ[s])}

\* A slip: the wait left out.
ThenWaitFor_Skipped(q, c, other) == q

\* Stream::ThenWaitFor(other): the stream waits for the work now enqueued on
\* the other stream; with none enqueued there is nothing to wait for.
ThenWaitFor(q, c, other) ==
  IF Pending(other) = {} THEN q ELSE Append(q, Op("wait", c, 0, Pending(other)))

\* ---------------------------------------------------------------- helpers
Done(c) == doneCount' = [doneCount EXCEPT ![c] = @ + 1]
Goto(c, where) == pc' = [pc EXCEPT ![c] = where]

\* A failed CHECK / ARROW_CHECK_OK: the process aborts inside call c.
Abort(c, cause) ==
  /\ abort' = [by |-> c, cause |-> cause]
  /\ Goto(c, "aborted")

\* OP_REQUIRES_ASYNC failing: set the status, call done, return.
FailAsync(c, code) ==
  /\ status' = [status EXCEPT ![c] = code]
  /\ Done(c)
  /\ Goto(c, "returned")

\* ------------------------------------------------------------- invocation
\* ------------------------------------------------------------------- Put
Inputs(c) == args[c].inputs
Id(c) == args[c].id
NumTensors(c) == Len(Inputs(c))

\* Lines 148-154: the first tensor the size loop rejects, if any.
BadSizes(inputs) ==
  {i \in 1..Len(inputs) :
     \/ TotalBytes(inputs[i]) # NumElements(inputs[i]) * SizeofFloat
     \/ ~(TotalBytes(inputs[i]) > 0)}

Min(S) == CHOOSE x \in S : \A y \in S : x <= y

\* Lines 137-172: what the validation of a Put's inputs ends in.  "ok", the
\* OP_REQUIRES_ASYNC failure "InvalidArgument", or the CHECK that aborts.
PutValidation(inputs) ==
  IF ~(Len(inputs) + 1 >= 2) THEN "InvalidArgument"
  ELSE IF BadSizes(inputs) # {}
    THEN LET t == inputs[Min(BadSizes(inputs))]
         IN IF TotalBytes(t) # NumElements(t) * SizeofFloat
              THEN "CHECK_EQ TotalBytes" ELSE "CHECK_GT TotalBytes"
  ELSE IF \E i \in 2..Len(inputs) : inputs[i].dtype # inputs[1].dtype
    THEN "TypeError: same data type"
  ELSE IF tf_dtype_to_arrow(inputs[1].dtype) = "unsupported"
    THEN "TypeError: not supported"
  ELSE "ok"

\* Lines 172-173.
ArrowDtype(c) == tf_dtype_to_arrow(Inputs(c)[1].dtype)
Shape(c) == TotalPayload(Inputs(c)) \div SizeofFloat

\* Lines 175-177.
HeaderSize(c) == TensorFlowTensorGetHeaderSize(ArrowDtype(c), Shape(c))

\* Lines 187-191: where the payload starts in the created buffer.
PayloadOffset(c) ==
  TensorFlowTensorWrite(ArrowDtype(c), Shape(c), store[Id(c)].data).offset

\* Lines 205-207 and 242-244: the copy of input i to data + offsets[i].
CopyInput(buf, c, i) ==
  WriteAt(buf, PayloadOffset(c) + Offsets(Inputs(c))[i], TensorData(Inputs(c)[i]))

RECURSIVE CopyInputs(_, _, _)
CopyInputs(buf, c, n) ==
  IF n = 0 THEN buf ELSE CopyInput(CopyInputs(buf, c, n - 1), c, n)

\* Calls and fresh ids are interchangeable: they are taken in order.
NextCall(c) == \A d \in CallIds : d < c => pc[d] # "idle"
Used(id) == \E d \in CallIds : args[d].kind # "none" /\ args[d].id = id
NextId(id) == id \in FreshIds /\ (id - 1 \in FreshIds => Used(id - 1))

\* The kernel that computes the inputs of a device Put: the runtime has
\* enqueued it on the compute stream before it invokes the Put.
Producer(c) == Op("produce", c, 0, {})
Produced(c) == Producer(c).key \notin Pending("compute")

\* Lines 136-177: the runtime invokes ComputeAsync of the Put kernel, which
\* checks arity, sizes and dtypes, maps the dtype and sizes the header.
\* producing: the kernel computing the inputs of a device Put is still on
\* the compute stream.  choices: the inputs the caller may pass.
InvokePutWith(c, producing, choices) ==
  /\ ~crashed
  /\ pc[c] = "idle"
  /\ ops["Put"].live > 0
  /\ NextCall(c)
  /\ \E dev \in {"CPU", "GPU"}, inputs \in choices, id \in FreshIds :
       /\ NextId(id)
       /\ args' = [args EXCEPT ![c] = [kind |-> "Put", dev |-> dev, inputs |-> inputs, id |-> id]]
       /\ streamQ' = [streamQ EXCEPT !["compute"] =
                         IF producing /\ dev = "GPU" /\ PutValidation(inputs) = "ok"
                           THEN Append(@, Producer(c)) ELSE @]
       /\ LET v == PutValidation(inputs)
          IN IF v = "InvalidArgument"
               THEN FailAsync(c, "InvalidArgument") /\ UNCHANGED abort
             ELSE IF v = "ok"
               THEN Goto(c, "p_create") /\ UNCHANGED <<status, doneCount, abort>>
             ELSE Abort(c, v) /\ UNCHANGED <<status, doneCount>>
  /\ UNCHANGED <<idx, storeCalls, copied, out, read, store, mu, d2h_stream,
                 h2d_stream, registered, streamLife, ops, conn>>

\* A Put whose inputs are computed when it is invoked.
InvokePut(c) == InvokePutWith(c, FALSE, PutInputs)

\* A Put invoked while the kernel computing its inputs is still enqueued.
InvokePutEarly(c) == InvokePutWith(c, TRUE, PutInputs)

\* A Put of one float tensor.
InvokePutPlain(c) == InvokePutWith(c, FALSE, {Uniform("DT_FLOAT", 1)})

\* Lines 179-191: Create under the mutex, then the header written into the
\* new buffer.
PutCreate(c) ==
  /\ ~crashed
  /\ pc[c] = "p_create"
  /\ mu[PutMutex] = NoCall
  /\ storeCalls' = [storeCalls EXCEPT ![c] = @ \cup {"Create"}]
  /\ IF CreateOk(Id(c))
       THEN /\ store' = [store EXCEPT ![Id(c)] =
                 [state |-> "created",
                  data |-> TensorFlowTensorWrite(
                             ArrowDtype(c), Shape(c),
                             Created(Id(c), HeaderSize(c) + TotalPayload(Inputs(c))).data
                           ).buffer]]
            /\ Goto(c, IF args[c].dev = "CPU" THEN "p_host" ELSE "p_dev")
            /\ UNCHANGED abort
       ELSE /\ Abort(c, "Create failed")
            /\ UNCHANGED store
  /\ UNCHANGED <<args, status, doneCount, idx, copied, out, read, mu, d2h_stream,
                 h2d_stream, streamQ, registered, streamLife, ops, conn>>

\* Lines 193-200: wrapped_callback: Seal under the mutex, status OK, done.
\* data is what the object's buffer holds when the callback runs.
WrappedCallback(c, data) ==
  /\ mu[PutMutex] = NoCall
  /\ storeCalls' = [storeCalls EXCEPT ![c] = @ \cup {"Seal"}]
  /\ IF SealOk(Id(c))
       THEN /\ store' = [store EXCEPT ![Id(c)] = [state |-> "sealed", data |-> data]]
            /\ status' = [status EXCEPT ![c] = "OK"]
            /\ Done(c)
            /\ Goto(c, "returned")
            /\ UNCHANGED abort
       ELSE /\ Abort(c, "Seal failed")
            /\ store' = [store EXCEPT ![Id(c)].data = data]
            /\ UNCHANGED <<status, doneCount>>

\* Lines 202-209: the host copies, in input order, into the buffer only
\* this call can reach, then wrapped_callback.
PutHost(c) ==
  /\ ~crashed
  /\ pc[c] = "p_host"
  /\ copied' = [copied EXCEPT ![c] = 1..NumTensors(c)]
  /\ WrappedCallback(c, CopyInputs(store[Id(c)].data, c, NumTensors(c)))
  /\ UNCHANGED <<args, idx, out, read, mu, d2h_stream, h2d_stream, streamQ,
                 registered, streamLife, ops, conn>>

\* Lines 212-221: the compute stream of the device, then the pinning of the
\* payload region, whose rejection fails a CHECK.  The driver rejects a
\* region that overlaps one pinned before; where the store has placed the
\* object is not this code's choice.
PutDevStart(c) ==
  /\ ~crashed
  /\ pc[c] = "p_dev"
  /\ \E haveStream \in BOOLEAN, overlap \in (IF registered = {} THEN {FALSE} ELSE BOOLEAN) :
       IF ~haveStream
         THEN /\ FailAsync(c, "Internal")
              /\ UNCHANGED <<registered, streamLife, abort>>
       ELSE IF overlap
         THEN /\ Abort(c, "CHECK HostMemoryRegister")
              /\ UNCHANGED <<status, doneCount, registered, streamLife>>
       ELSE /\ registered' = registered \cup {Id(c)}
            /\ Goto(c, "p_stream")
            /\ UNCHANGED <<status, doneCount, abort>>
  /\ UNCHANGED <<args, idx, storeCalls, copied, out, read, store, mu, d2h_stream,
                 h2d_stream, streamQ, streamLife, ops, conn>>

\* A call through a stream pointer whose stream a destructor has deleted
\* is undefined: it faults or goes unnoticed.
Dangling(stream) == IF stream = "deleted" THEN BOOLEAN ELSE {FALSE}

\* mutex_lock on a stream mutex: taken when no call holds it.
TryLock_Unguarded(m) == TRUE
TryLock(m) == mu[m] = NoCall

\* new Stream(stream_executor) assigned to the static pointer.
NewStream(s) == streamLife' = [streamLife EXCEPT ![s].created = @ + 1]

\* Lines 223-225 and 233: d2h_stream_mu taken and the pointer tested.  With
\* the stream there the lock is dropped and the stream made to wait for the
\* work now on the compute stream; a null pointer leads to the creation,
\* with the lock held.
PutStreamLock(c) ==
  /\ ~crashed
  /\ pc[c] = "p_stream"
  /\ TryLock("d2h_stream_mu")
  /\ IF d2h_stream = "null"
       THEN /\ mu' = [mu EXCEPT !["d2h_stream_mu"] = c]
            /\ Goto(c, "p_init")
            /\ UNCHANGED <<streamQ, abort>>
       ELSE /\ \E fault \in Dangling(d2h_stream) :
                 IF fault
                   THEN Abort(c, "use of a deleted stream") /\ UNCHANGED streamQ
                   ELSE /\ streamQ' = [streamQ EXCEPT
                                         !["d2h"] = ThenWaitFor(@, c, "compute")]
                        /\ Goto(c, "p_enqueue")
                        /\ UNCHANGED abort
            /\ UNCHANGED mu
  /\ UNCHANGED <<args, status, doneCount, idx, storeCalls, copied, out, read, store,
                 d2h_stream, h2d_stream, registered, streamLife, ops, conn>>

\* Lines 226-233: the stream created and initialised, the lock dropped, the
\* stream made to wait for the work now on the compute stream.
PutStreamInit(c) ==
  /\ ~crashed
  /\ pc[c] = "p_init"
  /\ NewStream("d2h")
  /\ \E initOk \in BOOLEAN :
       IF initOk
         THEN /\ d2h_stream' = "live"
              /\ mu' = [mu EXCEPT !["d2h_stream_mu"] = NoCall]
              /\ streamQ' = [streamQ EXCEPT !["d2h"] = ThenWaitFor(@, c, "compute")]
              /\ Goto(c, "p_enqueue")
              /\ UNCHANGED abort
         ELSE /\ d2h_stream' = "uninitialised"
              /\ Abort(c, "CHECK Stream::Init")
              /\ UNCHANGED <<mu, streamQ>>
  /\ UNCHANGED <<args, status, doneCount, idx, storeCalls, copied, out, read, store,
                 h2d_stream, registered, ops, conn>>

\* A slip in the enqueue loop: the failure is reported but the loop goes on
\* (the return of OP_REQUIRES_ASYNC left out).
PutEnqueue_NoReturn(c) ==
  /\ ~crashed
  /\ pc[c] = "p_enqueue"
  /\ \E success \in BOOLEAN :
       /\ IF success
            THEN /\ streamQ' = [streamQ EXCEPT
                                  !["d2h"] = Append(@, Op("memcpy", c, idx[c] + 1, {}))]
                 /\ UNCHANGED <<status, doneCount>>
            ELSE /\ status' = [status EXCEPT ![c] = "Internal"]
                 /\ Done(c)
                 /\ UNCHANGED streamQ
       /\ idx' = [idx EXCEPT ![c] = @ + 1]
       /\ Goto(c, IF idx[c] + 1 = NumTensors(c) THEN "p_hook" ELSE "p_enqueue")
  /\ UNCHANGED <<args, storeCalls, copied, out, read, store, mu, d2h_stream, h2d_stream,
                 registered, streamLife, abort, ops, conn>>

\* Lines 235-248: one iteration of the enqueue loop; a rejected enqueue
\* sets Internal, calls done and returns.
PutEnqueue(c) ==
  /\ ~crashed
  /\ pc[c] = "p_enqueue"
  /\ \E success \in BOOLEAN :
       IF success
         THEN /\ streamQ' = [streamQ EXCEPT !["d2h"] = Append(@, Op("memcpy", c, idx[c] + 1, {}))]
              /\ idx' = [idx EXCEPT ![c] = @ + 1]
              /\ Goto(c, IF idx[c] + 1 = NumTensors(c) THEN "p_hook" ELSE "p_enqueue")
              /\ UNCHANGED <<status, doneCount>>
         ELSE /\ FailAsync(c, "Internal")
              /\ UNCHANGED <<streamQ, idx>>
  /\ UNCHANGED <<args, storeCalls, copied, out, read, store, mu, d2h_stream, h2d_stream,
                 registered, streamLife, abort, ops, conn>>

\* A slip on the device path: wrapped_callback called directly, as on the
\* host path, instead of being handed to the event manager.
PutThenExecute_Direct(c) ==
  /\ ~crashed
  /\ pc[c] = "p_hook"
  /\ WrappedCallback(c, store[Id(c)].data)
  /\ UNCHANGED <<args, idx, copied, out, read, mu, d2h_stream, h2d_stream, streamQ,
                 registered, streamLife, ops, conn>>

\* Lines 249-250: wrapped_callback handed to the event manager, to run once
\* the work now on the staging stream has completed.
PutThenExecute(c) ==
  /\ ~crashed
  /\ pc[c] = "p_hook"
  /\ streamQ' = [streamQ EXCEPT !["d2h"] = Append(@, Op("event", c, 0, {}))]
  /\ Goto(c, "returned")
  /\ UNCHANGED <<args, status, doneCount, idx, storeCalls, copied, out, read, store, mu,
                 d2h_stream, h2d_stream, registered, streamLife, abort, ops, conn>>


\* ------------------------------------------------------------------- Get
\* Line 319: the size of the fetched data buffer.
SizeInBytes(c) == Len(store[Id(c)].data)
\* Line 320: the flat output shape.
OutShape(c) == SizeInBytes(c) \div SizeofFloat
\* The bytes the allocated output tensor holds.
OutBytes(c) == OutShape(c) * SizeofFloat

\* Lines 324-326: the output tensor allocate_output returns.
Allocated(c) == [allocated |-> TRUE, data |-> [k \in 1..OutBytes(c) |-> Garbage]]

\* memcpy(output, object data, size_in_bytes): what lands inside the output.
CopyOut(c, output) == WriteAt(output, 0, store[Id(c)].data)
\* The copy writes past the end of the output tensor.
Overflows(c) == SizeInBytes(c) > OutBytes(c)

\* Lines 300-316: the runtime invokes ComputeAsync of the Get kernel, which
\* takes the static mutex and issues the blocking Get.
InvokeGet(c) ==
  /\ ~crashed
  /\ pc[c] = "idle"
  /\ ops["Get"].live > 0
  /\ NextCall(c)
  /\ \E dev \in {"CPU", "GPU"}, id \in ObjectIds :
       /\ id = ExtId \/ NextId(id)
       /\ args' = [args EXCEPT ![c] = [kind |-> "Get", dev |-> dev, inputs |-> <<>>, id |-> id]]
  /\ Goto(c, "g_lock")
  /\ UNCHANGED <<status, doneCount, idx, storeCalls, copied, out, read, store, mu,
                 d2h_stream, h2d_stream, streamQ, registered, streamLife, abort, ops, conn>>

GetLock(c) ==
  /\ ~crashed
  /\ pc[c] = "g_lock"
  /\ mu[GetMutex] = NoCall
  /\ storeCalls' = [storeCalls EXCEPT ![c] = @ \cup {"Get"}]
  /\ IF Connected
       THEN /\ mu' = [mu EXCEPT ![GetMutex] = c]
            /\ Goto(c, "g_fetch")
            /\ UNCHANGED abort
       ELSE /\ Abort(c, "store call on a disconnected client")
            /\ UNCHANGED mu
  /\ UNCHANGED <<args, status, doneCount, idx, copied, out, read, store, d2h_stream,
                 h2d_stream, streamQ, registered, streamLife, ops, conn>>

\* Lines 315-332: the Get returns once the object is sealed and the mutex
\* is released; the shape from the byte size; the output allocated (a
\* failed allocation sets the status, calls done and returns); on the host
\* the copy of size_in_bytes bytes, then done.  A copy past the end of the
\* output is undefined: it faults or goes unnoticed.
GetHost(c) ==
  /\ ~crashed
  /\ pc[c] = "g_fetch"
  /\ args[c].dev = "CPU"
  /\ GetReady(Id(c))
  /\ mu' = [mu EXCEPT ![GetMutex] = NoCall]
  /\ \E allocated \in BOOLEAN, fault \in (IF Overflows(c) THEN BOOLEAN ELSE {FALSE}) :
       IF ~allocated
         THEN /\ FailAsync(c, "ResourceExhausted")
              /\ UNCHANGED <<out, copied, abort>>
       ELSE IF fault
         THEN /\ Abort(c, "memcpy out of bounds")
              /\ out' = [out EXCEPT ![c] = Allocated(c)]
              /\ UNCHANGED <<copied, status, doneCount>>
       ELSE /\ out' = [out EXCEPT ![c] =
                 [allocated |-> TRUE, data |-> CopyOut(c, Allocated(c).data)]]
            /\ copied' = [copied EXCEPT ![c] = {1}]
            /\ Done(c)
            /\ Goto(c, "returned")
            /\ UNCHANGED <<status, abort>>
  /\ UNCHANGED <<args, idx, storeCalls, read, store, d2h_stream, h2d_stream, streamQ,
                 registered, streamLife, ops, conn>>

\* Lines 315-326 and 335-337: fetch and allocation as on the host, then the
\* compute stream of the device.
GetDevStart(c) ==
  /\ ~crashed
  /\ pc[c] = "g_fetch"
  /\ args[c].dev = "GPU"
  /\ GetReady(Id(c))
  /\ mu' = [mu EXCEPT ![GetMutex] = NoCall]
  /\ \E allocated \in BOOLEAN, haveStream \in BOOLEAN :
       IF ~allocated
         THEN /\ FailAsync(c, "ResourceExhausted")
              /\ UNCHANGED out
       ELSE IF ~haveStream
         THEN /\ FailAsync(c, "Internal")
              /\ out' = [out EXCEPT ![c] = Allocated(c)]
       ELSE /\ out' = [out EXCEPT ![c] = Allocated(c)]
            /\ Goto(c, "g_stream")
            /\ UNCHANGED <<status, doneCount>>
  /\ UNCHANGED <<args, idx, storeCalls, copied, read, store, d2h_stream, h2d_stream,
                 streamQ, registered, streamLife, abort, ops, conn>>

\* Lines 340-342 and 351-353: h2d_stream_mu taken and the pointer tested.
\* With the stream there the lock is dropped and the region pinned, the
\* result of the pinning ignored; a null pointer leads to the creation.
GetStreamLock(c) ==
  /\ ~crashed
  /\ pc[c] = "g_stream"
  /\ TryLock("h2d_stream_mu")
  /\ IF h2d_stream = "null"
       THEN /\ mu' = [mu EXCEPT !["h2d_stream_mu"] = c]
            /\ Goto(c, "g_init")
            /\ UNCHANGED <<registered, abort>>
       ELSE /\ \E fault \in Dangling(h2d_stream) :
                 IF fault
                   THEN Abort(c, "use of a deleted stream") /\ UNCHANGED registered
                   ELSE /\ registered' = registered \cup {Id(c)}
                        /\ Goto(c, "g_enqueue")
                        /\ UNCHANGED abort
            /\ UNCHANGED mu
  /\ UNCHANGED <<args, status, doneCount, idx, storeCalls, copied, out, read, store,
                 d2h_stream, h2d_stream, streamQ, streamLife, ops, conn>>

\* Lines 343-353: the stream created and initialised, the lock dropped, the
\* region pinned.
GetStreamInit(c) ==
  /\ ~crashed
  /\ pc[c] = "g_init"
  /\ NewStream("h2d")
  /\ \E initOk \in BOOLEAN :
       IF initOk
         THEN /\ h2d_stream' = "live"
              /\ mu' = [mu EXCEPT !["h2d_stream_mu"] = NoCall]
              /\ registered' = registered \cup {Id(c)}
              /\ Goto(c, "g_enqueue")
              /\ UNCHANGED abort
         ELSE /\ h2d_stream' = "uninitialised"
              /\ Abort(c, "CHECK Stream::Init")
              /\ UNCHANGED <<mu, registered>>
  /\ UNCHANGED <<args, status, doneCount, idx, storeCalls, copied, out, read, store,
                 d2h_stream, streamQ, ops, conn>>

\* A slip after the enqueue: the failure is reported but the handler goes
\* on to schedule done (the return of OP_REQUIRES_ASYNC left out).
GetEnqueue_NoReturn(c) ==
  /\ ~crashed
  /\ pc[c] = "g_enqueue"
  /\ \E success \in BOOLEAN :
       IF success
         THEN /\ streamQ' = [streamQ EXCEPT !["h2d"] = Append(@, Op("memcpy", c, 1, {}))]
              /\ idx' = [idx EXCEPT ![c] = 1]
              /\ UNCHANGED <<status, doneCount>>
         ELSE /\ status' = [status EXCEPT ![c] = "Internal"]
              /\ Done(c)
              /\ UNCHANGED <<streamQ, idx>>
  /\ Goto(c, "g_sync")
  /\ UNCHANGED <<args, storeCalls, copied, out, read, store, mu, d2h_stream, h2d_stream,
                 registered, streamLife, abort, ops, conn>>

\* Lines 355-363: the copy enqueued on the staging stream; a rejected
\* enqueue sets Internal, calls done and returns.
GetEnqueue(c) ==
  /\ ~crashed
  /\ pc[c] = "g_enqueue"
  /\ \E success \in BOOLEAN :
       IF success
         THEN /\ streamQ' = [streamQ EXCEPT !["h2d"] = Append(@, Op("memcpy", c, 1, {}))]
              /\ idx' = [idx EXCEPT ![c] = 1]
              /\ Goto(c, "g_sync")
              /\ UNCHANGED <<status, doneCount>>
         ELSE /\ FailAsync(c, "Internal")
              /\ UNCHANGED <<streamQ, idx>>
  /\ UNCHANGED <<args, storeCalls, copied, out, read, store, mu, d2h_stream, h2d_stream,
                 registered, streamLife, abort, ops, conn>>

\* A slip in the synchronisation: the compute stream is not made to wait
\* for the staging stream.
GetSync_NoWait(c) ==
  /\ ~crashed
  /\ pc[c] = "g_sync"
  /\ streamQ' = [streamQ EXCEPT !["h2d"] = Append(@, Op("event", c, 0, {}))]
  /\ Goto(c, "returned")
  /\ UNCHANGED <<args, status, doneCount, idx, storeCalls, copied, out, read, store, mu,
                 d2h_stream, h2d_stream, registered, streamLife, abort, ops, conn>>

\* Lines 365-371: the compute stream made to wait for the work now on the
\* staging stream, then done handed to the event manager.
GetSync(c) ==
  /\ ~crashed
  /\ pc[c] = "g_sync"
  /\ streamQ' = [streamQ EXCEPT
                   !["compute"] = ThenWaitFor(@, c, "h2d"),
                   !["h2d"] = Append(@, Op("event", c, 0, {}))]
  /\ Goto(c, "returned")
  /\ UNCHANGED <<args, status, doneCount, idx, storeCalls, copied, out, read, store, mu,
                 d2h_stream, h2d_stream, registered, streamLife, abort, ops, conn>>

\* The consumer of a device Get's output enqueues a kernel that reads the
\* tensor on the compute stream, any time after ComputeAsync has returned.
ConsumerEnqueue(c) ==
  /\ ~crashed
  /\ pc[c] = "returned"
  /\ args[c].kind = "Get" /\ args[c].dev = "GPU" /\ idx[c] = 1
  /\ read[c] = "none"
  /\ read' = [read EXCEPT ![c] = "queued"]
  /\ streamQ' = [streamQ EXCEPT !["compute"] = Append(@, Op("read", c, 0, {}))]
  /\ UNCHANGED <<pc, args, status, doneCount, idx, storeCalls, copied, out, store, mu,
                 d2h_stream, h2d_stream, registered, streamLife, abort, ops, conn>>

\* ------------------------------------------------------- stream execution
Front(s) == streamQ[s][1]
HeadIs(s, type) == streamQ[s] # <<>> /\ Front(s).key[1] = type
HeadCall(s) == Front(s).key[2]
Pop(s) == streamQ' = [streamQ EXCEPT ![s] = Tail(@)]
AllPending == UNION {Pending(s) : s \in Streams}

\* The compute stream executes the kernel that computes a Put's inputs.
StreamProduce ==
  /\ ~crashed
  /\ HeadIs("compute", "produce")
  /\ Pop("compute")
  /\ UNCHANGED <<pc, args, status, doneCount, idx, storeCalls, copied, out, read, store,
                 mu, d2h_stream, h2d_stream, registered, streamLife, abort, ops, conn>>

\* What a device-to-host copy of input i leaves in the buffer: the bytes of
\* the tensor, or, read before the producer has finished, unset bytes.
DeviceCopy(buf, c, i) ==
  IF Produced(c)
    THEN CopyInput(buf, c, i)
    ELSE WriteAt(buf, PayloadOffset(c) + Offsets(Inputs(c))[i],
                 [k \in 1..TotalBytes(Inputs(c)[i]) |-> Garbage])

\* The staging stream executes a device-to-host copy of a Put.
StreamCopyD2H ==
  /\ ~crashed
  /\ HeadIs("d2h", "memcpy")
  /\ LET c == HeadCall("d2h")
         i == Front("d2h").key[3]
     IN /\ store' = [store EXCEPT ![Id(c)].data = DeviceCopy(@, c, i)]
        /\ copied' = [copied EXCEPT ![c] = @ \cup {i}]
  /\ Pop("d2h")
  /\ UNCHANGED <<pc, args, status, doneCount, idx, storeCalls, out, read, mu, d2h_stream,
                 h2d_stream, registered, streamLife, abort, ops, conn>>

\* The staging stream executes the host-to-device copy of a Get.
StreamCopyH2D ==
  /\ ~crashed
  /\ HeadIs("h2d", "memcpy")
  /\ LET c == HeadCall("h2d")
     IN \E fault \in (IF Overflows(c) THEN BOOLEAN ELSE {FALSE}) :
          IF fault
            THEN Abort(c, "memcpy out of bounds") /\ UNCHANGED <<out, copied, streamQ>>
            ELSE /\ out' = [out EXCEPT ![c].data = CopyOut(c, @)]
                 /\ copied' = [copied EXCEPT ![c] = {1}]
                 /\ Pop("h2d")
                 /\ UNCHANGED <<pc, abort>>
  /\ UNCHANGED <<args, status, doneCount, idx, storeCalls, read, store, mu, d2h_stream,
                 h2d_stream, registered, streamLife, ops, conn>>

\* A stream passes a ThenWaitFor once the work it waits for has completed.
StreamWait(s) ==
  /\ ~crashed
  /\ HeadIs(s, "wait")
  /\ Front(s).on \cap AllPending = {}
  /\ Pop(s)
  /\ UNCHANGED <<pc, args, status, doneCount, idx, storeCalls, copied, out, read, store,
                 mu, d2h_stream, h2d_stream, registered, streamLife, abort, ops, conn>>

\* The compute stream executes the consumer's kernel, which reads the
\* output tensor of Get c.
StreamRead ==
  /\ ~crashed
  /\ HeadIs("compute", "read")
  /\ LET c == HeadCall("compute")
     IN read' = [read EXCEPT ![c] = IF copied[c] = {1} THEN "ok" ELSE "torn"]
  /\ Pop("compute")
  /\ UNCHANGED <<pc, args, status, doneCount, idx, storeCalls, copied, out, store, mu,
                 d2h_stream, h2d_stream, registered, streamLife, abort, ops, conn>>

\* EventMgr::ThenExecute: once the work enqueued on the staging stream
\* before it has completed, the event manager runs wrapped_callback.
RunPutCallback ==
  /\ ~crashed
  /\ HeadIs("d2h", "event")
  /\ WrappedCallback(HeadCall("d2h"), store[Id(HeadCall("d2h"))].data)
  /\ Pop("d2h")
  /\ UNCHANGED <<args, idx, copied, out, read, mu, d2h_stream, h2d_stream,
                 registered, streamLife, ops, conn>>

\* EventMgr::ThenExecute: once the work enqueued on the staging stream
\* before it has completed, the event manager runs done.
RunGetCallback ==
  /\ ~crashed
  /\ HeadIs("h2d", "event")
  /\ Done(HeadCall("h2d"))
  /\ Pop("h2d")
  /\ UNCHANGED <<pc, args, status, idx, storeCalls, copied, out, read, store, mu,
                 d2h_stream, h2d_stream, registered, streamLife, abort, ops, conn>>

\* ------------------------------------------------------- buffer lifetime
\* Lines 179 and 193-200: a Put holds its buffer through the local
\* data_buffer until ComputeAsync returns, and through the copy that
\* wrapped_callback captured while the event manager keeps the callback.
\* Lines 309 and 370-371: a Get holds the fetched buffer through the local
\* object_buffer until ComputeAsync returns; done captures nothing.
BufferHeld(c) ==
  IF args[c].kind = "Put"
    THEN \/ pc[c] \in {"p_host", "p_dev", "p_stream", "p_init", "p_enqueue", "p_hook"}
         \/ Op("event", c, 0, {}).key \in Pending("d2h")
    ELSE pc[c] \in {"g_stream", "g_init", "g_enqueue", "g_sync"}

\* ------------------------------------------------------ operator lifecycle
\* The destructor of an operator runs when the runtime is done with it: no
\* call of its kind is in flight and none of their work is on a stream.
Quiet(kind) ==
  \A c \in CallIds :
    args[c].kind = kind =>
      /\ pc[c] \in {"returned", "aborted"}
      /\ \A s \in Streams : \A k \in 1..Len(streamQ[s]) : streamQ[s][k].key[2] # c

Built(kind) == ops' = [ops EXCEPT ![kind] = [live |-> @.live + 1, built |-> @.built + 1]]
Gone(kind) == ops' = [ops EXCEPT ![kind].live = @ - 1]

\* The constructor and the destructor are the runtime's, not a call's.
Runtime == NumCalls + 1

\* Lines 123-134 and 287-298: delete on the static pointer unless it is
\* null; the pointer keeps its value.  A second delete on the same pointer
\* is undefined: it faults or goes unnoticed.
DeleteStream(s, stream) ==
  IF stream = "null"
    THEN UNCHANGED <<streamLife, abort>>
    ELSE /\ streamLife' = [streamLife EXCEPT ![s].deleted = @ + 1]
         /\ \E fault \in Dangling(stream) :
              abort' = IF fault THEN [by |-> Runtime, cause |-> "double delete"] ELSE abort

\* Lines 107-121: inside TensorToPlasmaOp the names mu_, connected_ and
\* client_ are the members of the new instance: connected_ is false and
\* the instance connects its own client.
ConstructPut ==
  /\ ~crashed
  /\ ops["Put"].built < MaxOps
  /\ Built("Put")
  /\ conn' = [conn EXCEPT !.connects = @ + 1]
  /\ UNCHANGED <<pc, args, status, doneCount, idx, storeCalls, copied, out, read, store,
                 mu, d2h_stream, h2d_stream, streamQ, registered, streamLife, abort>>

\* Lines 123-134: the instance's client disconnected, the staging stream
\* deleted.
DestroyPut ==
  /\ ~crashed
  /\ ops["Put"].live > 0
  /\ Quiet("Put")
  /\ TryLock("d2h_stream_mu")
  /\ Gone("Put")
  /\ DeleteStream("d2h", d2h_stream)
  /\ d2h_stream' = IF d2h_stream = "null" THEN "null" ELSE "deleted"
  /\ UNCHANGED <<pc, args, status, doneCount, idx, storeCalls, copied, out, read, store,
                 mu, h2d_stream, streamQ, registered, conn>>

\* Lines 271-285: the static mutex, the static flag, the static client.
ConstructGet ==
  /\ ~crashed
  /\ ops["Get"].built < MaxOps
  /\ mu[GetMutex] = NoCall
  /\ Built("Get")
  /\ conn' = IF ~conn.flag
               THEN [flag |-> TRUE, client |-> TRUE, connects |-> conn.connects + 1]
               ELSE conn
  /\ UNCHANGED <<pc, args, status, doneCount, idx, storeCalls, copied, out, read, store,
                 mu, d2h_stream, h2d_stream, streamQ, registered, streamLife, abort>>

\* Lines 287-298: the static client disconnected whatever the flag says,
\* the flag left as it is, the staging stream deleted.
DestroyGet ==
  /\ ~crashed
  /\ ops["Get"].live > 0
  /\ Quiet("Get")
  /\ mu[GetMutex] = NoCall
  /\ TryLock("h2d_stream_mu")
  /\ Gone("Get")
  /\ conn' = [conn EXCEPT !.client = FALSE]
  /\ DeleteStream("h2d", h2d_stream)
  /\ h2d_stream' = IF h2d_stream = "null" THEN "null" ELSE "deleted"
  /\ UNCHANGED <<pc, args, status, doneCount, idx, storeCalls, copied, out, read, store,
                 mu, d2h_stream, streamQ, registered>>

\* ------------------------------------------------------------------ Next
PutStep(c) ==
  \/ InvokePut(c) \/ PutCreate(c) \/ PutHost(c)
  \/ PutDevStart(c) \/ PutStreamLock(c) \/ PutStreamInit(c)
  \/ PutEnqueue(c) \/ PutThenExecute(c)

GetStep(c) ==
  \/ InvokeGet(c) \/ GetLock(c) \/ GetHost(c)
  \/ GetDevStart(c) \/ GetStreamLock(c) \/ GetStreamInit(c)
  \/ GetEnqueue(c) \/ GetSync(c) \/ ConsumerEnqueue(c)

StreamStep ==
  \/ StreamCopyD2H \/ StreamCopyH2D \/ StreamRead
  \/ RunPutCallback \/ RunGetCallback
  \/ \E s \in Streams : StreamWait(s)

Next ==
  \/ \E c \in CallIds : PutStep(c) \/ GetStep(c)
  \/ StreamStep

Spec == Init /\ [][Next]_vars

\* The process from its start: operators are constructed and destroyed
\* between the calls.
Lifecycle == ConstructPut \/ DestroyPut \/ ConstructGet \/ DestroyGet

LifePutStep(c) ==
  \/ InvokePutPlain(c) \/ PutCreate(c) \/ PutHost(c)
  \/ PutDevStart(c) \/ PutStreamLock(c) \/ PutStreamInit(c)
  \/ PutEnqueue(c) \/ PutThenExecute(c)

LifeGetStep(c) ==
  \/ InvokeGet(c) \/ GetLock(c) \/ GetHost(c)
  \/ GetDevStart(c) \/ GetStreamLock(c) \/ GetStreamInit(c)
  \/ GetEnqueue(c) \/ GetSync(c)

LifeNext ==
  \/ Lifecycle
  \/ \E c \in CallIds : LifePutStep(c) \/ LifeGetStep(c)
  \/ StreamCopyD2H \/ StreamCopyH2D \/ RunPutCallback \/ RunGetCallback
  \/ StreamWait("compute")

LifeSpec == LifeInit /\ [][LifeNext]_vars

\* The Put kernel alone, invoked while the kernels that compute its inputs
\* are still enqueued on the compute stream.
EarlyPutStep(c) ==
  \/ InvokePutEarly(c) \/ PutCreate(c) \/ PutHost(c)
  \/ PutDevStart(c) \/ PutStreamLock(c) \/ PutStreamInit(c)
  \/ PutEnqueue(c) \/ PutThenExecute(c)

EarlyPutNext ==
  \/ \E c \in CallIds : EarlyPutStep(c)
  \/ StreamProduce \/ StreamCopyD2H \/ StreamWait("d2h") \/ RunPutCallback

EarlyPutSpec == Init /\ [][EarlyPutNext]_vars


\* The worker threads of the runtime keep running and the streams keep
\* executing: every step of an invoked call, and every stream step, that
\* stays possible is taken.  Invocations are the caller's choice.
Progress(c) ==
  \/ PutCreate(c) \/ PutHost(c) \/ PutDevStart(c) \/ PutStreamLock(c)
  \/ PutStreamInit(c) \/ PutEnqueue(c) \/ PutThenExecute(c)
  \/ GetLock(c) \/ GetHost(c) \/ GetDevStart(c) \/ GetStreamLock(c)
  \/ GetStreamInit(c) \/ GetEnqueue(c) \/ GetSync(c)

FairSpec ==
  /\ Spec
  /\ \A c \in CallIds : WF_vars(Progress(c))
  /\ WF_vars(StreamStep)

\* ---------------------------------------------------------------- claims
IsPut(c) == args[c].kind = "Put"
IsGet(c) == args[c].kind = "Get"
Sealed(id) == store[id].state = "sealed"
\* Work of call c is still enqueued on some stream.
HasPending(c) == \E s \in Streams : \E k \in 1..Len(streamQ[s]) : streamQ[s][k].key[2] = c
\* The handler of call c has ended and nothing of it is left to run.
Exited(c) == pc[c] = "aborted" \/ (pc[c] = "returned" /\ ~HasPending(c))
\* Call c has been invoked and has not completed.
InFlight(c) == pc[c] \notin {"idle", "aborted"} /\ doneCount[c] = 0
\* Call c has failed: an error status, or the check that aborted the process.
Failed(c) == status[c] # "OK" \/ pc[c] = "aborted"
\* Put p has sealed its object and completed.
PutSucceeded(p) == IsPut(p) /\ "Seal" \in storeCalls[p] /\ doneCount[p] = 1 /\ status[p] = "OK"
\* Get g has completed with its copy done.
GetSucceeded(g) == IsGet(g) /\ doneCount[g] = 1 /\ status[g] = "OK" /\ copied[g] = {1}
Payload(p) == ConcatData(Inputs(p), NumTensors(p))

\* C1: a Put of uniform dtype under a fresh id followed by a Get on the id
\* returns exactly the concatenation of the inputs' bytes, in input order,
\* hence (sum of the input byte sizes) / 4 elements.
C1_RoundTrip ==
  \A p \in CallIds, g \in CallIds :
    (PutSucceeded(p) /\ GetSucceeded(g) /\ Id(g) = Id(p))
      => /\ out[g].data = Payload(p)
         /\ Len(out[g].data) \div SizeofFloat = TotalPayload(Inputs(p)) \div SizeofFloat

\* C2: the Seal and the successful completion callback of a Put come only
\* after every copy of its inputs has landed in the store buffer, so a
\* sealed object of this process holds its whole payload.
C2_SealAfterAllCopies ==
  \A c \in CallIds :
    IsPut(c) =>
      /\ "Seal" \in storeCalls[c] => copied[c] = 1..NumTensors(c)
      /\ (doneCount[c] > 0 /\ status[c] = "OK") => copied[c] = 1..NumTensors(c)
      /\ ("Seal" \in storeCalls[c] /\ Sealed(Id(c)))
           => SubSeq(store[Id(c)].data, PayloadOffset(c) + 1, Len(store[Id(c)].data))
                = Payload(c)

\* Two device Puts share the staging stream: one has sealed all its
\* tensors while copies of the other are still enqueued.
C2_Witness ==
  \E c \in CallIds, d \in CallIds :
    /\ c # d /\ IsPut(c) /\ IsPut(d) /\ args[c].dev = "GPU" /\ args[d].dev = "GPU"
    /\ "Seal" \in storeCalls[c] /\ NumTensors(c) = MaxTensors
    /\ \E k \in 1..Len(streamQ["d2h"]) :
         streamQ["d2h"][k].key[1] = "memcpy" /\ streamQ["d2h"][k].key[2] = d

\* C3: the completion callback of a call never runs more than once.
C3_CallbackAtMostOnce == \A c \in CallIds : doneCount[c] <= 1

\* A device Put completed through the event manager, and a device Get
\* failed at the enqueue, after its output was allocated: one callback each.
C3_Witness ==
  \E p \in CallIds, g \in CallIds :
    /\ PutSucceeded(p) /\ args[p].dev = "GPU"
    /\ IsGet(g) /\ args[g].dev = "GPU" /\ status[g] = "Internal" /\ out[g].allocated
    /\ pc[g] = "returned" /\ h2d_stream = "live" /\ doneCount[g] = 1

\* C4: every call whose handler has ended, normally or by a failure, and
\* whose stream work has run, has invoked its completion callback.
C4_CallbackNeverOmitted == \A c \in CallIds : Exited(c) => doneCount[c] >= 1

\* C5: the kernel the consumer enqueues on the compute stream after a
\* device Get never reads the output before the copy has completed, and
\* the callback of a device Get fires only after the copy.
C5_WaitAfterCopy ==
  \A c \in CallIds :
    /\ read[c] # "torn"
    /\ (IsGet(c) /\ args[c].dev = "GPU" /\ idx[c] = 1 /\ doneCount[c] > 0) => copied[c] = {1}

\* The consumer's kernel has read the complete output before the callback
\* of the Get has run.
C5_Witness ==
  \E c \in CallIds : IsGet(c) /\ read[c] = "ok" /\ doneCount[c] = 0

\* C6: a Put that has failed has issued no Seal and has no completion hook
\* left on the staging stream; the object it created stays unsealed.
C6_FailedPutNeverSeals ==
  \A c \in CallIds :
    (IsPut(c) /\ Failed(c)) =>
      /\ "Seal" \notin storeCalls[c]
      /\ Op("event", c, 0, {}).key \notin Pending("d2h")
      /\ status[c] = "Internal" => store[Id(c)].state = "created"

\* A device Put failed at an enqueue after an earlier copy was enqueued;
\* that copy has landed, the stream is drained, no Seal was issued.
C6_Witness ==
  \E c \in CallIds :
    /\ IsPut(c) /\ status[c] = "Internal" /\ idx[c] >= 1
    /\ copied[c] = 1..idx[c] /\ streamQ["d2h"] = <<>>

\* C7: a Get on an object whose byte size is not a multiple of the element
\* width fails with InvalidArgument, with no output allocated, no copy done
\* (stated for the runs in which the allocator itself does not fail).
C7_IndivisibleGetFails ==
  \A c \in CallIds :
    (IsGet(c) /\ pc[c] \notin {"idle", "g_lock", "g_fetch"}
       /\ SizeInBytes(c) % SizeofFloat # 0 /\ status[c] # "ResourceExhausted")
      => status[c] = "InvalidArgument" /\ ~out[c].allocated /\ copied[c] = {}

\* C8: a Put with no tensor fails with InvalidArgument, a Put with mixed
\* dtypes fails with a type error, both before any store call.
MixedDtypes(inputs) == \E i \in 1..Len(inputs) : inputs[i].dtype # inputs[1].dtype
C8_ValidationPrecedesStore ==
  \A c \in CallIds :
    /\ (IsPut(c) /\ Inputs(c) = <<>>)
         => status[c] = "InvalidArgument" /\ storeCalls[c] = {}
    /\ (IsPut(c) /\ MixedDtypes(Inputs(c)))
         => status[c] \in {"TypeError", "TypeMismatch"} /\ storeCalls[c] = {}

\* C9: a failure of one call shows in that call's status and callback and
\* leaves the other calls in flight able to complete.
C9_FailureFatalOnlyToCall ==
  \A c \in CallIds, d \in CallIds :
    (c # d /\ Failed(c) /\ InFlight(d))
      => status[c] # "OK" /\ doneCount[c] = 1 /\ ~crashed

\* C10: a Get allocates nothing and calls nothing back before its id is
\* sealed; a Get blocked in the fetch never keeps a Put from creating or
\* sealing; and a Get waiting in the fetch on an id that a Put of this
\* process has sealed completes.
GetWaiting(g) == IsGet(g) /\ pc[g] = "g_fetch"
C10_NothingBeforeSeal ==
  \A g \in CallIds : (IsGet(g) /\ (out[g].allocated \/ doneCount[g] > 0)) => Sealed(Id(g))
C10_PutNotPrevented ==
  \A g \in CallIds, p \in CallIds :
    (GetWaiting(g) /\ ~Sealed(Id(g)) /\ ~crashed)
      => /\ pc[p] = "p_create" => ENABLED PutCreate(p)
         /\ pc[p] = "p_host" => ENABLED PutHost(p)
C10_BlockedGetCompletes ==
  /\ []C10_NothingBeforeSeal
  /\ []C10_PutNotPrevented
  /\ \A g \in CallIds :
       (GetWaiting(g) /\ Id(g) \in FreshIds /\ Sealed(Id(g))) ~> (doneCount[g] = 1)


\* C11: for a Put whose N >= 1 inputs passed the validation the offset table
\* has N+1 entries, starts at 0, grows by the byte size of each tensor, never
\* decreases, and ends at the sum of the byte sizes, which with the header
\* size is the size of the object the Put creates.
RECURSIVE ByteSum(_)
ByteSum(inputs) ==
  IF inputs = <<>> THEN 0 ELSE TotalBytes(Head(inputs)) + ByteSum(Tail(inputs))
Validated(c) == IsPut(c) /\ PutValidation(Inputs(c)) = "ok"
C11_OffsetTable ==
  \A c \in CallIds :
    Validated(c) =>
      LET offsets == Offsets(Inputs(c))
          N == NumTensors(c)
      IN /\ N >= 1
         /\ Len(offsets) = N + 1
         /\ offsets[1] = 0
         /\ \A k \in 1..N : offsets[k + 1] = offsets[k] + TotalBytes(Inputs(c)[k])
         /\ \A k \in 1..N : offsets[k] <= offsets[k + 1]
         /\ offsets[N + 1] = ByteSum(Inputs(c))
         /\ (storeCalls[c] # {} /\ store[Id(c)].state # "absent"
               /\ \A d \in CallIds \ {c} : ~(IsPut(d) /\ Id(d) = Id(c)))
              => Len(store[Id(c)].data) = HeaderSize(c) + offsets[N + 1]

\* A Put of MaxTensors tensors of different sizes has created its object.
C11_Witness ==
  \E c \in CallIds :
    /\ Validated(c) /\ NumTensors(c) = MaxTensors /\ MaxTensors > 1
    /\ "Create" \in storeCalls[c] /\ store[Id(c)].state = "created"
    /\ Offsets(Inputs(c))[MaxTensors + 1] > Offsets(Inputs(c))[MaxTensors]


\* C12: a device call whose host region overlaps one pinned before still
\* proceeds: no call ends in the process aborting on a rejected pinning.
C12_RedundantPinningTolerated ==
  \A c \in CallIds :
    (args[c].dev = "GPU" /\ registered # {} /\ pc[c] = "aborted" /\ abort.by = c)
      => abort.cause # "CHECK HostMemoryRegister"

\* C16: every device-to-host copy of a Put that has landed holds the bytes
\* of its input tensor: it ran after the producer of the inputs, and no copy
\* of a Put stands on the staging stream ahead of the Put's wait.
Region(c, i) ==
  SubSeq(store[Id(c)].data,
         PayloadOffset(c) + Offsets(Inputs(c))[i] + 1,
         PayloadOffset(c) + Offsets(Inputs(c))[i + 1])
C16_WaitBeforeCopy ==
  \A c \in CallIds :
    (IsPut(c) /\ args[c].dev = "GPU") =>
      /\ \A i \in copied[c] : Region(c, i) = TensorData(Inputs(c)[i])
      /\ \A k \in 1..Len(streamQ["d2h"]), j \in 1..Len(streamQ["d2h"]) :
           (streamQ["d2h"][k].key = <<"wait", c, 0>> /\ streamQ["d2h"][j].key[2] = c) => k <= j

\* The wait of a device Put holds back its enqueued copy while the kernel
\* computing the inputs is still on the compute stream, and a copy of
\* another Put on the same stream has landed.
C16_Witness ==
  \E c \in CallIds, d \in CallIds :
    /\ c # d /\ IsPut(c) /\ ~Produced(c)
    /\ streamQ["d2h"] # <<>> /\ Front("d2h").key = <<"wait", c, 0>>
    /\ <<"memcpy", c, 1>> \in Pending("d2h")
    /\ IsPut(d) /\ args[d].dev = "GPU" /\ copied[d] # {}

\* C17: each staging stream is created at most once, and every call that
\* has gone on to enqueue work, and all work enqueued, finds it initialised.
C17_StreamInitOnce ==
  /\ \A s \in Staging : streamLife[s].created <= 1
  /\ \A c \in CallIds :
       /\ pc[c] \in {"p_enqueue", "p_hook"} => d2h_stream = "live"
       /\ pc[c] \in {"g_enqueue", "g_sync"} => h2d_stream = "live"
  /\ streamQ["d2h"] # <<>> => d2h_stream = "live"
  /\ streamQ["h2d"] # <<>> => h2d_stream = "live"

\* Two first-time device Puts race: one has found the pointer null and
\* creates the stream with the lock held, the other stands at the lock.
C17_Witness ==
  \E c \in CallIds, d \in CallIds :
    /\ pc[c] = "p_init" /\ mu["d2h_stream_mu"] = c
    /\ pc[d] = "p_stream" /\ d2h_stream = "null"


\* C13: each staging stream is deleted at most once, and no call waits,
\* enqueues or hooks on a stream that has been deleted: a device call after
\* a teardown finds a stream that was created anew.
C13_NoUseAfterTeardown ==
  /\ \A s \in Staging : streamLife[s].deleted <= 1
  /\ \A c \in CallIds :
       /\ pc[c] \in {"p_enqueue", "p_hook"} => d2h_stream # "deleted"
       /\ pc[c] \in {"g_enqueue", "g_sync"} => h2d_stream # "deleted"
  /\ abort.cause \notin {"use of a deleted stream", "double delete"}

\* C14: every store call is issued on a client that is connected when the
\* call is made.
C14_StoreCallsConnected ==
  \A c \in CallIds :
    storeCalls[c] # {} => ~(abort.by = c /\ abort.cause = "store call on a disconnected client")

\* C15: however many operators are constructed, Connect is called at most
\* once in the process.
C15_ConnectOnce == conn.connects <= 1


\* C18: while a copy of a call is enqueued on a staging stream and has not
\* run, the call holds the store buffer the copy touches.
CopyPending(c) ==
  \E s \in Staging : \E k \in 1..Len(streamQ[s]) :
    streamQ[s][k].key[1] = "memcpy" /\ streamQ[s][k].key[2] = c
C18_BufferHeldDuringCopy ==
  \A c \in CallIds : CopyPending(c) => BufferHeld(c)

\* C19: a Get on a sealed id that has come to the store client lock gets
\* past it, also while another Get is blocked in the fetch of an id nobody
\* seals: the lock is held only for store calls that return.
C19_SealedGetNotStarved ==
  \A g \in CallIds :
    (IsGet(g) /\ pc[g] = "g_lock" /\ Sealed(Id(g))) ~> (pc[g] # "g_lock" \/ crashed)

\* C20: in a Put the header write ends where the computed header size says
\* and every input's range lies inside the created object; in a Get the
\* bytes copied fit the allocated output.
C20_CopiesInBounds ==
  \A c \in CallIds :
    /\ (Validated(c) /\ storeCalls[c] # {} /\ store[Id(c)].state # "absent"
          /\ \A d \in CallIds \ {c} : ~(IsPut(d) /\ Id(d) = Id(c)))
         => /\ PayloadOffset(c) = HeaderSize(c)
            /\ \A i \in 1..NumTensors(c) :
                 PayloadOffset(c) + Offsets(Inputs(c))[i + 1] <= Len(store[Id(c)].data)
    /\ (IsGet(c) /\ copied[c] = {1}) => SizeInBytes(c) <= Len(out[c].data)

====
